---- MODULE Spec2Model ----
(***************************************************************************)
(* Model of apps/perms/api/user_permission.py: the user-permission query   *)
(* views and the resolution engine (cache, resolvers, ActionSet) that they *)
(* call.  Three specifications share the module:                           *)
(*   Spec         concurrent get_or_compute / expire_all_cache             *)
(*   SpecApi      ValidateUserAssetPermissionApi and                       *)
(*                GetUserAssetPermissionActionsApi as whole handlers       *)
(*   SpecGranted  the AssetPermissionUtilV2 list and tree views            *)
(***************************************************************************)
EXTENDS Integers, Sequences, FiniteSets, TLC

VARIABLES rules, cache, epoch, changes, procs, resp,
          binding, valid, nodeRule, assetRule, out

vars == <<rules, cache, epoch, changes, procs, resp,
          binding, valid, nodeRule, assetRule, out>>

grantedVars == <<binding, valid, nodeRule, assetRule, out>>

(***************************************************************************)
(* Bounds                                                                  *)
(***************************************************************************)
MaxEpoch == 1
MaxChanges == 1
MaxRules == 2

(***************************************************************************)
(* Identities                                                              *)
(***************************************************************************)
Users == {"u1", "u2"}
AssetOrder == <<"a1", "a2">>
Assets == {AssetOrder[i] : i \in 1..Len(AssetOrder)}
SysUsers == {"s1", "s2"}
Procs == {"p1", "p2"}

(***************************************************************************)
(* ActionSet                                                               *)
(***************************************************************************)
ActionBits == <<"connect", "upload", "download">>
ActionNames == {ActionBits[i] : i \in 1..Len(ActionBits)}

Pow2(n) == IF n = 0 THEN 1 ELSE IF n = 1 THEN 2 ELSE 4

HasBit(x, i) == (x \div Pow2(i - 1)) % 2 = 1

UnionActions(a, b) ==
    LET bit(i) == IF HasBit(a, i) \/ HasBit(b, i) THEN Pow2(i - 1) ELSE 0
    IN bit(1) + bit(2) + bit(3)

ValueToChoices(value) ==
    {ActionBits[i] : i \in {j \in 1..Len(ActionBits) : HasBit(value, j)}}

(***************************************************************************)
(* GrantStore and the legacy resolver (AssetPermissionUtil.get_assets)     *)
(***************************************************************************)
Rule(u, a, s, x) == [user |-> u, asset |-> a, su |-> s, actions |-> x]

RECURSIVE FoldUnion(_)
FoldUnion(S) ==
    IF S = {} THEN 0
    ELSE LET x == CHOOSE y \in S : TRUE
         IN UnionActions(x, FoldUnion(S \ {x}))

SystemUsersOf(u, a, R) ==
    LET sus == {r.su : r \in {q \in R : q.user = u /\ q.asset = a}}
    IN [s \in sus |->
          FoldUnion({r.actions : r \in {q \in R : q.user = u /\ q.asset = a
                                                  /\ q.su = s}})]

RECURSIVE AssetsFrom(_, _, _)
AssetsFrom(i, u, R) ==
    IF i > Len(AssetOrder) THEN <<>>
    ELSE LET a == AssetOrder[i]
             rest == AssetsFrom(i + 1, u, R)
         IN IF \E r \in R : r.user = u /\ r.asset = a
            THEN <<[id |-> a, system_users |-> SystemUsersOf(u, a, R)]>>
                 \o rest
            ELSE rest

ComputeAssets(u, R) == AssetsFrom(1, u, R)

(***************************************************************************)
(* PermissionCache                                                         *)
(***************************************************************************)
NoEntry == [present |-> FALSE, value |-> <<>>, stored |-> 0]

IsForceLoose(policy) == policy # "0"

IsForce(policy) == policy = "force"

CacheKeyShared(u) == "u1"

CacheKey(u) == u

ExpireAllCache(c) == [k \in DOMAIN c |-> NoEntry]

StoreEntry(c, u, v, e) ==
    [c EXCEPT ![CacheKey(u)] = [present |-> TRUE, value |-> v, stored |-> e]]

QueryPolicies == {"absent", "0", "force", "2"}

CachePolicyParam(qp) == IF qp = "absent" THEN "0" ELSE qp

(***************************************************************************)
(* Spec: concurrent requests against the shared cache                      *)
(***************************************************************************)
SampleRules == {Rule("u1", "a1", "s1", 1), Rule("u2", "a1", "s1", 2)}

Idle == [pc |-> "idle", user |-> "u1", policy |-> "0", hit |-> FALSE,
         val |-> <<>>, src |-> "none", readEpoch |-> 0, gotEpoch |-> 0]

NoResp == [api |-> "none", user_id |-> "", asset_id |-> "", system_id |-> "",
           action_name |-> "", status |-> 0, msg |-> "none", actions |-> 0,
           assets |-> <<>>, resolved |-> FALSE, wrote |-> FALSE]

NoOut == [api |-> "none", node |-> <<>>, all |-> "absent", filter |-> <<>>,
          status |-> 0, order |-> <<>>, input |-> <<>>, rows |-> <<>>]

GrantedIdle ==
    /\ binding = [a \in Assets |-> {}]
    /\ valid = {}
    /\ nodeRule = <<>>
    /\ assetRule = {}
    /\ out = NoOut

Init ==
    /\ rules \in SUBSET SampleRules
    /\ cache = [u \in Users |-> NoEntry]
    /\ epoch = 0
    /\ changes = 0
    /\ procs = [p \in Procs |-> Idle]
    /\ resp = NoResp
    /\ GrantedIdle

\* A request reaches get_or_compute: the cache is read on arrival.
StartRequest(p, u, qp) ==
    LET policy == CachePolicyParam(qp)
        e == cache[CacheKey(u)]
        base == [Idle EXCEPT !.user = u, !.policy = policy,
                             !.hit = e.present, !.readEpoch = epoch]
    IN /\ procs[p].pc = "idle"
       /\ IF ~IsForce(policy) /\ e.present
          THEN procs' = [procs EXCEPT ![p] =
                   [base EXCEPT !.pc = "done", !.val = e.value,
                                !.src = "cache", !.gotEpoch = e.stored]]
          ELSE procs' = [procs EXCEPT ![p] =
                   [base EXCEPT !.pc = "computing",
                                !.val = ComputeAssets(u, rules)]]
       /\ UNCHANGED <<rules, cache, epoch, changes, resp>>
       /\ UNCHANGED grantedVars

\* The computation completes: the result is stored and returned.
StoreResult(p) ==
    /\ procs[p].pc = "computing"
    /\ cache' = StoreEntry(cache, procs[p].user, procs[p].val, epoch)
    /\ procs' = [procs EXCEPT ![p].pc = "done", ![p].src = "computed",
                              ![p].gotEpoch = epoch]
    /\ UNCHANGED <<rules, epoch, changes, resp>>
    /\ UNCHANGED grantedVars

Finish(p) ==
    /\ procs[p].pc = "done"
    /\ procs' = [procs EXCEPT ![p] = Idle]
    /\ UNCHANGED <<rules, cache, epoch, changes, resp>>
    /\ UNCHANGED grantedVars

RetrieveNoExpire ==
    /\ epoch < MaxEpoch
    /\ epoch' = epoch + 1
    /\ UNCHANGED <<rules, cache, changes, procs, resp>>
    /\ UNCHANGED grantedVars

\* RefreshAssetPermissionCacheApi.retrieve
Retrieve ==
    /\ epoch < MaxEpoch
    /\ cache' = ExpireAllCache(cache)
    /\ epoch' = epoch + 1
    /\ UNCHANGED <<rules, changes, procs, resp>>
    /\ UNCHANGED grantedVars

\* An entry reaches its TTL.
ExpireTTL(u) ==
    /\ cache[u].present
    /\ cache' = [cache EXCEPT ![u] = NoEntry]
    /\ UNCHANGED <<rules, epoch, changes, procs, resp>>
    /\ UNCHANGED grantedVars

\* The administration surface adds or removes a rule.
RuleChange(r) ==
    /\ changes < MaxChanges
    /\ changes' = changes + 1
    /\ rules' = IF r \in rules THEN rules \ {r} ELSE rules \cup {r}
    /\ UNCHANGED <<cache, epoch, procs, resp>>
    /\ UNCHANGED grantedVars

Next ==
    \/ \E p \in Procs, u \in Users, qp \in QueryPolicies : StartRequest(p, u, qp)
    \/ \E p \in Procs : StoreResult(p)
    \/ \E p \in Procs : Finish(p)
    \/ Retrieve
    \/ \E u \in Users : ExpireTTL(u)
    \/ \E r \in SampleRules : RuleChange(r)

Spec == Init /\ [][Next]_vars

C2_NoEntrySurvivesExpire ==
    /\ \A u \in Users : cache[u].present => cache[u].stored = epoch
    /\ \A p \in Procs :
         (procs[p].pc = "done" /\ ~IsForce(procs[p].policy)) =>
            /\ procs[p].src = "cache" => procs[p].gotEpoch = procs[p].readEpoch
            /\ procs[p].src = "computed" => ~procs[p].hit

C2_ExpireStep ==
    /\ epoch' # epoch => \A u \in Users : ~cache'[u].present
    /\ \A p \in Procs :
         (/\ procs[p].pc = "idle" /\ procs'[p].pc # "idle"
          /\ ~cache[procs'[p].user].present) =>
            /\ procs'[p].pc = "computing"
            /\ procs'[p].val = ComputeAssets(procs'[p].user, rules)

C3_Done ==
    \A p \in Procs : procs[p].pc = "done" =>
       /\ procs[p].policy = "force" => procs[p].src = "computed"
       /\ procs[p].policy # "force" => (procs[p].src = "cache" <=> procs[p].hit)

C3_StoreStep ==
    \A p \in Procs :
       (procs[p].pc = "computing" /\ procs'[p].pc = "done") =>
          /\ cache'[procs[p].user].present
          /\ cache'[procs[p].user].value = procs'[p].val

\* C3: both parts, in every state and at every completing step.
C3_TwoBehaviours == []C3_Done /\ [][C3_StoreStep]_vars

\* An unrecognised policy value answered from the cache, next to a force
\* request that computed although an entry was present.
C3_Witness ==
    \E p, q \in Procs :
       /\ procs[p].pc = "done" /\ procs[p].policy = "2"
       /\ procs[p].hit /\ procs[p].src = "cache"
       /\ procs[q].pc = "done" /\ procs[q].policy = "force"
       /\ procs[q].hit /\ procs[q].src = "computed"

\* C9: while the rule snapshot is unchanged, every completed request holds
\* the complete result a direct computation yields for its own user, under
\* every interleaving of requests, stores, TTL expiry and expire_all_cache.
C9_CompleteOwnResult ==
    changes = 0 =>
       \A p \in Procs : procs[p].pc = "done" =>
          procs[p].val = ComputeAssets(procs[p].user, rules)

\* Two requests of different users done together, one answered from the
\* cache, the other computed across a concurrent expire.
C9_Witness ==
    \E p, q \in Procs :
       /\ changes = 0
       /\ procs[p].pc = "done" /\ procs[q].pc = "done"
       /\ procs[p].user # procs[q].user
       /\ procs[p].val # <<>> /\ procs[q].val # <<>>
       /\ procs[p].src = "cache"
       /\ procs[q].src = "computed" /\ procs[q].readEpoch < procs[q].gotEpoch

(***************************************************************************)
(* SpecApi: the two query views as whole handlers                          *)
(***************************************************************************)
ActionVals == {0, 1, 6}

ApiRuleUniverse ==
    {Rule("u1", a, s, x) : a \in Assets, s \in SysUsers, x \in ActionVals}

RECURSIVE RuleSets(_)
RuleSets(n) ==
    IF n = 0 THEN {{}}
    ELSE LET smaller == RuleSets(n - 1)
         IN smaller \cup {S \cup {r} : S \in smaller, r \in ApiRuleUniverse}

\* Identifiers as the request carries them: text.  uuid.UUID accepts the
\* plain and the braced form of the same id and rejects everything else.
Braced(h) == "{" \o h \o "}"

HexIds == Users \cup {"u9"} \cup Assets \cup SysUsers

IsUUID(s) == \E h \in HexIds : s = h \/ s = Braced(h)

UUID(s) == CHOOSE h \in HexIds : s = h \/ s = Braced(h)

UserIdStrs == {"u1", "u9", "zz"}
AssetIdStrs == {"a1", Braced("a1"), "a2", "zz"}
SystemIdStrs == {"s1", "s2", ""}
ActionNameStrs == ActionNames \cup {""}

\* get_object_or_404(User, id=...): the lookup converts text to a UUID and
\* a text that is no UUID, like an id of no user, ends in Http404.
UserFound(user_id) == IsUUID(user_id) /\ UUID(user_id) \in Users

\* AssetPermissionUtil(user, cache_policy).get_assets(), run to completion.
GetOrCompute(c, u, policy, R, e) ==
    IF ~IsForce(policy) /\ c[CacheKey(u)].present
    THEN [value |-> c[CacheKey(u)].value, cache |-> c]
    ELSE LET v == ComputeAssets(u, R)
         IN [value |-> v, cache |-> StoreEntry(c, u, v, e)]

RECURSIVE FirstIndex(_, _, _)
FirstIndex(assets, id, i) ==
    IF i > Len(assets) THEN 0
    ELSE IF assets[i].id = id THEN i
    ELSE FirstIndex(assets, id, i + 1)

ValidateLoopAnySystemUser(assets, asset_id, system_id, action_name) ==
    LET i == FirstIndex(assets, asset_id, 1)
    IN /\ i # 0
       /\ \E s \in DOMAIN assets[i].system_users :
             /\ assets[i].system_users[s] # 0
             /\ action_name \in ValueToChoices(assets[i].system_users[s])

\* The loop of ValidateUserAssetPermissionApi.get: the first entry with the
\* asset id decides; a missing login account (None) and ActionSet 0 are falsy.
ValidateLoop(assets, asset_id, system_id, action_name) ==
    LET i == FirstIndex(assets, asset_id, 1)
    IN /\ i # 0
       /\ system_id \in DOMAIN assets[i].system_users
       /\ assets[i].system_users[system_id] # 0
       /\ action_name \in ValueToChoices(assets[i].system_users[system_id])

ActionsLoopAnySystemUser(assets, asset_id, system_id) ==
    LET i == FirstIndex(assets, asset_id, 1)
    IN IF i = 0 THEN 0
       ELSE FoldUnion({assets[i].system_users[s] :
                          s \in DOMAIN assets[i].system_users})

\* The loop of GetUserAssetPermissionActionsApi.get_object.
ActionsLoop(assets, asset_id, system_id) ==
    LET i == FirstIndex(assets, asset_id, 1)
    IN IF i = 0 THEN 0
       ELSE IF system_id \in DOMAIN assets[i].system_users
            THEN assets[i].system_users[system_id]
            ELSE 0

Request(api, user_id, asset_id, system_id, action_name) ==
    [NoResp EXCEPT !.api = api, !.user_id = user_id, !.asset_id = asset_id,
                   !.system_id = system_id, !.action_name = action_name]

\* ValidateUserAssetPermissionApi.get
ValidateGet(user_id, asset_id, system_id, action_name, qp) ==
    LET req == Request("validate", user_id, asset_id, system_id, action_name)
        cache_policy == CachePolicyParam(qp)
    IN IF ~(IsUUID(asset_id) /\ IsUUID(system_id))
       THEN /\ resp' = [req EXCEPT !.status = 403, !.msg = "False"]
            /\ cache' = cache
       ELSE IF ~UserFound(user_id)
       THEN /\ resp' = [req EXCEPT !.status = 404]
            /\ cache' = cache
       ELSE LET got == GetOrCompute(cache, UUID(user_id), cache_policy,
                                    rules, epoch)
                yes == ValidateLoop(got.value, UUID(asset_id),
                                    UUID(system_id), action_name)
            IN /\ cache' = got.cache
               /\ resp' = [req EXCEPT
                     !.status = IF yes THEN 200 ELSE 403,
                     !.msg = IF yes THEN "True" ELSE "False",
                     !.assets = got.value,
                     !.resolved = TRUE,
                     !.wrote = got.cache # cache]

\* GetUserAssetPermissionActionsApi.get_object, then RetrieveAPIView.retrieve
\* which serializes whatever get_object returned.  A Response returned by
\* get_object is serialized as if it were the object: the serializer either
\* skips the missing field (200) or fails on it (500).
GetActions(user_id, asset_id, system_id, qp, outcome) ==
    LET req == Request("actions", user_id, asset_id, system_id, "")
        cache_policy == CachePolicyParam(qp)
    IN IF ~(IsUUID(user_id) /\ IsUUID(asset_id) /\ IsUUID(system_id))
       THEN /\ resp' = [req EXCEPT !.status = outcome,
                                   !.msg = "serialized Response"]
            /\ cache' = cache
       ELSE IF ~UserFound(user_id)
       THEN /\ resp' = [req EXCEPT !.status = 404]
            /\ cache' = cache
       ELSE LET got == GetOrCompute(cache, UUID(user_id), cache_policy,
                                    rules, epoch)
            IN /\ cache' = got.cache
               /\ resp' = [req EXCEPT
                     !.status = 200,
                     !.msg = "actions",
                     !.actions = ActionsLoop(got.value, UUID(asset_id),
                                             UUID(system_id)),
                     !.assets = got.value,
                     !.resolved = TRUE,
                     !.wrote = got.cache # cache]

InitApi ==
    /\ rules \in RuleSets(MaxRules)
    /\ cache = [u \in Users |-> NoEntry]
    /\ epoch = 0
    /\ changes = 0
    /\ procs = [p \in Procs |-> Idle]
    /\ resp = NoResp
    /\ GrantedIdle

ApiValidate ==
    /\ resp = NoResp
    /\ \E user_id \in UserIdStrs, asset_id \in AssetIdStrs,
          system_id \in SystemIdStrs, action_name \in ActionNameStrs,
          qp \in QueryPolicies :
          ValidateGet(user_id, asset_id, system_id, action_name, qp)
    /\ UNCHANGED <<rules, epoch, changes, procs>>
    /\ UNCHANGED grantedVars

ApiGetActions ==
    /\ resp = NoResp
    /\ \E user_id \in UserIdStrs, asset_id \in AssetIdStrs,
          system_id \in SystemIdStrs, qp \in QueryPolicies,
          outcome \in {200, 500} :
          GetActions(user_id, asset_id, system_id, qp, outcome)
    /\ UNCHANGED <<rules, epoch, changes, procs>>
    /\ UNCHANGED grantedVars

ApiRefresh ==
    /\ resp = NoResp
    /\ cache' = ExpireAllCache(cache)
    /\ resp' = [NoResp EXCEPT !.api = "refresh", !.status = 200,
                              !.msg = "True"]
    /\ UNCHANGED <<rules, epoch, changes, procs>>
    /\ UNCHANGED grantedVars

\* The response leaves; the next request can be taken.
ApiDeliver ==
    /\ resp # NoResp
    /\ resp' = NoResp
    /\ UNCHANGED <<rules, cache, epoch, changes, procs>>
    /\ UNCHANGED grantedVars

NextApi == ApiValidate \/ ApiGetActions \/ ApiRefresh \/ ApiDeliver

SpecApi == InitApi /\ [][NextApi]_vars

\* What a claim says about one request, read off the response in flight.
ReqAsset == UUID(resp.asset_id)
ReqSystem == UUID(resp.system_id)

ReqIdsWellFormed == IsUUID(resp.asset_id) /\ IsUUID(resp.system_id)

EntryGrants ==
    /\ ReqIdsWellFormed
    /\ \E i \in 1..Len(resp.assets) :
          /\ resp.assets[i].id = ReqAsset
          /\ ReqSystem \in DOMAIN resp.assets[i].system_users
          /\ resp.assets[i].system_users[ReqSystem] # 0
          /\ resp.action_name \in
                ValueToChoices(resp.assets[i].system_users[ReqSystem])

AnswersByGrant ==
    IF EntryGrants
    THEN resp.status = 200 /\ resp.msg = "True"
    ELSE resp.status = 403 /\ resp.msg = "False"

\* C1 as stated: every validate request is answered True/200 when an entry
\* of the resolved sequence grants the action and False/403 in every other
\* case.
C1_Original == resp.api = "validate" => AnswersByGrant

\* C1 amended: a validate request whose asset and login-account ids are well
\* formed and whose user_id names no user is answered 404 without a
\* resolution; every other validate request is answered True/200 when an
\* entry of the resolved sequence grants the action and False/403 otherwise.
C1_ValidateAnswer ==
    resp.api = "validate" =>
       IF ReqIdsWellFormed /\ ~UserFound(resp.user_id)
       THEN resp.status = 404 /\ ~resp.resolved
       ELSE AnswersByGrant

\* A True answer for an asset id sent in its braced form.
C1_Witness ==
    /\ resp.api = "validate"
    /\ resp.asset_id = Braced("a1")
    /\ resp.status = 200 /\ resp.msg = "True"
    /\ resp.action_name = "download"
    /\ cache["u1"].present

Malformed ==
    \/ ~IsUUID(resp.user_id)
    \/ ~IsUUID(resp.asset_id)
    \/ ~IsUUID(resp.system_id)

\* C6: a request of either view that carries a malformed identifier is
\* answered {'msg': False} with status 403, and nothing was resolved or
\* written to the cache for it.
C6_MalformedRejected ==
    (resp.api \in {"validate", "actions"} /\ Malformed) =>
       /\ resp.status = 403 /\ resp.msg = "False"
       /\ ~resp.resolved /\ ~resp.wrote

HasEntry ==
    \E i \in 1..Len(resp.assets) :
       /\ resp.assets[i].id = ReqAsset
       /\ ReqSystem \in DOMAIN resp.assets[i].system_users

EntryIsZero ==
    \E i \in 1..Len(resp.assets) :
       /\ resp.assets[i].id = ReqAsset
       /\ ReqSystem \in DOMAIN resp.assets[i].system_users
       /\ resp.assets[i].system_users[ReqSystem] = 0

ViewsAgree ==
    (resp.api = "validate" /\ resp.resolved) =>
       (resp.msg = "True" <=>
          resp.action_name \in
             ValueToChoices(ActionsLoop(resp.assets, ReqAsset, ReqSystem)))

\* C10 as stated: the views agree, and the actions view returns 0 exactly
\* when the asset is not resolved or the login account has no entry.
C10_Original ==
    /\ ViewsAgree
    /\ (resp.api = "actions" /\ resp.resolved) =>
          (resp.actions = 0 <=> ~HasEntry)

\* C10 amended: the views agree, and the actions view returns 0 exactly when
\* the asset is not resolved, the login account has no entry, or the entry
\* holds ActionSet 0.
C10_ViewsAgree ==
    /\ ViewsAgree
    /\ (resp.api = "actions" /\ resp.resolved) =>
          (resp.actions = 0 <=> (~HasEntry \/ EntryIsZero))

\* The actions view answering 0 for an entry that exists and holds 0.
C10_Witness ==
    /\ resp.api = "actions" /\ resp.resolved
    /\ resp.actions = 0 /\ HasEntry

(***************************************************************************)
(* SpecGranted: the AssetPermissionUtilV2 views over one user's grants     *)
(***************************************************************************)
\* Node keys "1", "1:1" and "2" as sequences of their components.
NodeKeys == {<<1>>, <<1, 1>>, <<2>>}
NoNode == <<>>
MissingNode == <<9>>

IsPrefix(p, k) == Len(p) <= Len(k) /\ SubSeq(k, 1, Len(p)) = p

\* k is a descendant of n: k starts with n followed by ":".
IsDescendant(k, n) == Len(n) < Len(k) /\ IsPrefix(n, k)

\* '^{0}$|^{0}:'.format(node.key)
KeyMatches(k, n) == k = n \/ IsDescendant(k, n)

RECURSIVE SeqOfFrom(_, _)
SeqOfFrom(S, i) ==
    IF i > Len(AssetOrder) THEN <<>>
    ELSE (IF AssetOrder[i] \in S THEN <<AssetOrder[i]>> ELSE <<>>)
         \o SeqOfFrom(S, i + 1)

\* A queryset over a set of assets: one row each.
SeqOf(S) == SeqOfFrom(S, 1)

RangeOf(q) == {q[i] : i \in 1..Len(q)}

NoDuplicates(q) == \A i, j \in 1..Len(q) : i # j => q[i] # q[j]

\* TreeResolver (spec 4.1)
Reachable(k) ==
    \/ \E n \in NodeKeys : nodeRule[n] # "none" /\ KeyMatches(k, n)
    \/ \E a \in assetRule : k \in binding[a]

TreeKeys == {k \in NodeKeys : Reachable(k)}

AssetsAttr(k) ==
    IF \E n \in NodeKeys : nodeRule[n] = "all" /\ KeyMatches(k, n)
    THEN [kind |-> "all", ids |-> {}]
    ELSE LET ids == {a \in assetRule : k \in binding[a]}
         IN IF ids # {} THEN [kind |-> "ids", ids |-> ids]
            ELSE [kind |-> "none", ids |-> {}]

\* tree.get_node(key): absent for a key outside the tree.
GetNode(k) ==
    IF k \in TreeKeys THEN AssetsAttr(k) ELSE [kind |-> "none", ids |-> {}]

HasTreeAncestor(k) == \E n \in TreeKeys : IsDescendant(k, n)

TreeParent(k) ==
    IF HasTreeAncestor(k)
    THEN CHOOSE n \in TreeKeys :
            /\ IsDescendant(k, n)
            /\ \A m \in TreeKeys : IsDescendant(k, m) => Len(m) <= Len(n)
    ELSE NoNode

\* tree.children(key); the synthetic root is NoNode.
TreeChildren(k) == {c \in TreeKeys : TreeParent(c) = k}

\* AssetResolver (spec 4.2)
NodeAssetSet(k) ==
    LET attr == GetNode(k)
    IN IF attr.kind = "all" THEN {a \in valid : k \in binding[a]}
       ELSE attr.ids \cap valid

\* AssetPermissionUtilV2.get_assets
GetAssets == SeqOf(UNION {NodeAssetSet(k) : k \in TreeKeys})

\* AssetPermissionUtilV2.get_nodes_assets(node, deep)
GetNodesAssets(node, deep) ==
    IF deep
    THEN SeqOf(UNION {NodeAssetSet(k) : k \in {t \in TreeKeys : KeyMatches(t, node)}})
    ELSE SeqOf(NodeAssetSet(node))

\* queryset.filter(<join on nodes>): one row for each matching node of each
\* row's asset.
RECURSIVE Repeat(_, _)
Repeat(x, n) == IF n = 0 THEN <<>> ELSE <<x>> \o Repeat(x, n - 1)

RECURSIVE FilterJoin(_, _)
FilterJoin(q, matching) ==
    IF q = <<>> THEN <<>>
    ELSE Repeat(Head(q), Cardinality(binding[Head(q)] \cap matching))
         \o FilterJoin(Tail(q), matching)

\* queryset.distinct()
RECURSIVE Distinct(_)
Distinct(q) ==
    IF q = <<>> THEN <<>>
    ELSE LET front == Distinct(SubSeq(q, 1, Len(q) - 1))
             last == q[Len(q)]
         IN IF last \in RangeOf(front) THEN front ELSE Append(front, last)

AllParams == {"absent", "0", "1", "true"}

AllParam(all) == IF all = "absent" THEN "0" ELSE all

FilterByNodesNoDistinct(queryset, node, all) ==
    IF node = NoNode THEN queryset
    ELSE IF AllParam(all) \in {"1", "true"}
         THEN FilterJoin(queryset, {k \in NodeKeys : KeyMatches(k, node)})
         ELSE FilterJoin(queryset, {node})

\* UserGrantedAssetsApi.filter_by_nodes, for a node that exists
FilterByNodes(queryset, node, all) ==
    IF node = NoNode THEN queryset
    ELSE IF AllParam(all) \in {"1", "true"}
         THEN Distinct(FilterJoin(queryset,
                                  {k \in NodeKeys : KeyMatches(k, node)}))
         ELSE FilterJoin(queryset, {node})

DeepParamLoose(all) == AllParam(all) \in {"1", "true"}

\* UserGrantedNodeAssetsApi.get_queryset: deep
DeepParam(all) == AllParam(all) = "1"

\* UserGrantedAssetsApi: get_queryset, then filter_queryset
GrantedAssetsList(node, all) ==
    LET req == [NoOut EXCEPT !.api = "assets", !.filter = node, !.all = all]
        queryset == GetAssets
    IN IF node = MissingNode
       THEN out' = [req EXCEPT !.status = 404, !.input = queryset]
       ELSE out' = [req EXCEPT !.status = 200, !.input = queryset,
                               !.rows = FilterByNodes(queryset, node, all)]

\* UserGrantedNodeAssetsApi: get_queryset, then the inherited filter_queryset
GrantedNodeAssetsList(node_id, node, all) ==
    LET req == [NoOut EXCEPT !.api = "node_assets", !.node = node_id,
                             !.filter = node, !.all = all]
    IN IF node_id = MissingNode
       THEN out' = [req EXCEPT !.status = 404]
       ELSE LET queryset == GetNodesAssets(node_id, DeepParam(all))
            IN IF node = MissingNode
               THEN out' = [req EXCEPT !.status = 404, !.input = queryset]
               ELSE out' = [req EXCEPT !.status = 200, !.input = queryset,
                               !.rows = FilterByNodes(queryset, node, all)]

\* The queryset of tree entries: node entries and asset leaves.
NodeEntry(k) == [kind |-> "node", node |-> k, asset |-> ""]
LeafEntry(k, a) == [kind |-> "asset", node |-> k, asset |-> a]

RECURSIVE KeyLess(_, _)
KeyLess(a, b) ==
    IF b = <<>> THEN FALSE
    ELSE IF a = <<>> THEN TRUE
    ELSE IF Head(a) # Head(b) THEN Head(a) < Head(b)
    ELSE KeyLess(Tail(a), Tail(b))

AssetRank(a) == IF a = "" THEN 0 ELSE CHOOSE i \in 1..Len(AssetOrder) : AssetOrder[i] = a

\* The ordering of materialized entries: by node, a node before its assets.
EntryLess(x, y) ==
    IF x.node # y.node THEN KeyLess(x.node, y.node)
    ELSE AssetRank(x.asset) < AssetRank(y.asset)

RECURSIVE InsertEntry(_, _)
InsertEntry(q, x) ==
    IF q = <<>> THEN <<x>>
    ELSE IF EntryLess(x, Head(q)) THEN <<x>> \o q
    ELSE <<Head(q)>> \o InsertEntry(Tail(q), x)

\* sorted(queryset)
RECURSIVE SortedEntries(_)
SortedEntries(q) ==
    IF q = <<>> THEN <<>>
    ELSE InsertEntry(SortedEntries(SubSeq(q, 1, Len(q) - 1)), q[Len(q)])

Perms(S) ==
    {q \in [1..Cardinality(S) -> S] : \A x \in S : \E i \in DOMAIN q : q[i] = x}

RECURSIVE NodeEntries(_)
NodeEntries(S) ==
    IF S = {} THEN <<>>
    ELSE LET k == CHOOSE x \in S : TRUE
         IN <<NodeEntry(k)>> \o NodeEntries(S \ {k})

RECURSIVE LeafEntries(_, _)
LeafEntries(k, q) ==
    IF q = <<>> THEN <<>>
    ELSE <<LeafEntry(k, Head(q))>> \o LeafEntries(k, Tail(q))

\* UserGrantedNodeChildrenApi.get_queryset: the keys of the nodes listed
ChildrenKeys(self_node) ==
    IF self_node # NoNode THEN TreeChildren(self_node)
    ELSE TreeChildren(NoNode)
         \cup UNION {TreeChildren(key) : key \in TreeChildren(NoNode)}

\* Asset.objects.filter(nodes=node); nodes=None selects the assets bound to
\* no node.
AssetsFilterNodes(node) ==
    IF node = NoNode THEN {a \in Assets : binding[a] = {}}
    ELSE {a \in Assets : node \in binding[a]}

\* The loop of UserGrantedNodesWithAssetsAsTreeApi.get_queryset from the
\* i-th node on; assets is the value the variable holds on entry.
RECURSIVE AssetLoop(_, _, _, _)
AssetLoop(nodes, i, assets, self_node) ==
    IF i > Len(nodes) THEN <<>>
    ELSE LET node == nodes[i]
             n == GetNode(node)
             chosen == IF n.kind = "all" THEN AssetsFilterNodes(self_node)
                       ELSE IF n.ids # {} THEN n.ids
                       ELSE assets
             now == chosen \cap valid
         IN LeafEntries(node, SeqOf(now))
            \o AssetLoop(nodes, i + 1, now, self_node)

\* UserGrantedNodesWithAssetsAsTreeApi: get, then get_queryset.  order is the
\* order in which Node.objects.filter(key__in=root_keys) yields the nodes.
NodesWithAssetsAsTree(self_node, order) ==
    LET req == [NoOut EXCEPT !.api = "tree", !.node = self_node,
                             !.order = order]
    IN IF self_node = MissingNode
       THEN out' = [req EXCEPT !.status = 404]
       ELSE LET queryset == NodeEntries(ChildrenKeys(self_node))
                nodes == IF self_node # NoNode THEN <<self_node>> ELSE order
            IN out' = [req EXCEPT !.status = 200,
                  !.rows = SortedEntries(queryset
                              \o AssetLoop(nodes, 1, {}, self_node))]

InvalidCandidates == {"a2"}

InitGranted ==
    /\ rules = {}
    /\ cache = [u \in Users |-> NoEntry]
    /\ epoch = 0
    /\ changes = 0
    /\ procs = [p \in Procs |-> Idle]
    /\ resp = NoResp
    /\ binding \in [Assets -> (SUBSET NodeKeys) \ {{}}]
    /\ valid \in {Assets \ S : S \in SUBSET InvalidCandidates}
    /\ nodeRule \in [NodeKeys -> {"none", "silent", "all"}]
    /\ assetRule \in SUBSET Assets
    /\ out = NoOut

apiVars == <<rules, cache, epoch, changes, procs, resp>>

ListAssets ==
    /\ out = NoOut
    /\ \E node \in NodeKeys \cup {NoNode, MissingNode}, all \in AllParams :
          GrantedAssetsList(node, all)
    /\ UNCHANGED <<binding, valid, nodeRule, assetRule>>
    /\ UNCHANGED apiVars

ListNodeAssets ==
    /\ out = NoOut
    /\ \E node_id \in NodeKeys \cup {MissingNode},
          node \in {NoNode, <<1>>, MissingNode}, all \in AllParams :
          GrantedNodeAssetsList(node_id, node, all)
    /\ UNCHANGED <<binding, valid, nodeRule, assetRule>>
    /\ UNCHANGED apiVars

\* The response leaves; the next request can be taken.
GrantedDeliver ==
    /\ out.api # "none"
    /\ out' = NoOut
    /\ UNCHANGED <<binding, valid, nodeRule, assetRule>>
    /\ UNCHANGED apiVars

TreeWithAssets ==
    /\ out = NoOut
    /\ \E self_node \in NodeKeys \cup {NoNode, MissingNode} :
          \E order \in Perms(IF self_node = NoNode THEN TreeChildren(NoNode)
                             ELSE {}) :
             NodesWithAssetsAsTree(self_node, order)
    /\ UNCHANGED <<binding, valid, nodeRule, assetRule>>
    /\ UNCHANGED apiVars

NextGranted == ListAssets \/ ListNodeAssets \/ TreeWithAssets \/ GrantedDeliver

SpecGranted == InitGranted /\ [][NextGranted]_vars

\* C4: the asset sequence UserGrantedAssetsApi returns (get_queryset, then
\* filter_by_nodes with or without a node and with or without all) holds no
\* asset twice, whatever rules grant it and whatever nodes it is bound to.
C4_NoAssetTwice ==
    out.api = "assets" => (NoDuplicates(out.input) /\ NoDuplicates(out.rows))

\* An asset bound to node 1 and to its child 1:1, granted by a node rule and
\* by an asset rule, listed under node 1 with all=1.
C4_Witness ==
    /\ out.api = "assets" /\ out.filter = <<1>> /\ out.all = "1"
    /\ nodeRule[<<1>>] = "all"
    /\ \E a \in RangeOf(out.rows) :
          /\ {<<1>>, <<1, 1>>} \subseteq binding[a]
          /\ a \in assetRule

\* C5: for a node N granted "all assets" and a descendant D of N, a (valid)
\* asset bound only to D is in the queryset of UserGrantedNodeAssetsApi for N
\* exactly when the query parameter all is "1": deep is chosen by all = "1"
\* alone, deep=true includes it and deep=false excludes it.
C5_DeepByAllParam ==
    (/\ out.api = "node_assets"
     /\ out.node \in NodeKeys
     /\ AssetsAttr(out.node).kind = "all") =>
          \A D \in NodeKeys, a \in valid :
             (IsDescendant(D, out.node) /\ binding[a] = {D}) =>
                (a \in RangeOf(out.input) <=> out.all = "1")

\* Node 1 granted all assets, its child 1:1 with no rule of its own, asset a1
\* bound to 1:1 only and listed for node 1 with all=1.
C5_Witness ==
    /\ out.api = "node_assets" /\ out.node = <<1>> /\ out.all = "1"
    /\ nodeRule[<<1>>] = "all" /\ nodeRule[<<1, 1>>] = "none"
    /\ binding["a1"] = {<<1, 1>>}
    /\ assetRule = {}
    /\ "a1" \in RangeOf(out.input)

LeavesUnder(k) ==
    {out.rows[i].asset :
        i \in {j \in 1..Len(out.rows) :
                  out.rows[j].kind = "asset" /\ out.rows[j].node = k}}

ProcessedNodes ==
    IF out.node # NoNode THEN {out.node} ELSE TreeChildren(NoNode)

AttachedValidAssets(k) ==
    LET n == GetNode(k)
    IN IF n.kind = "all" THEN {a \in valid : k \in binding[a]}
       ELSE IF n.kind = "ids" THEN n.ids \cap valid
       ELSE {}

\* C7: the asset leaves emitted with a processed node as owner are exactly
\* the valid assets the user's tree attaches to that node (all valid assets
\* bound to it for 'all', the valid assets of the id set otherwise, none
\* without an assets attribute), and no other node owns a leaf.
C7_LeavesMatchTree ==
    (out.api = "tree" /\ out.status = 200) =>
       \A k \in NodeKeys :
          LeavesUnder(k) = IF k \in ProcessedNodes
                           THEN AttachedValidAssets(k) ELSE {}

(***************************************************************************)
(* SpecSystemUsers: UserGrantedAssetSystemUsersApi                         *)
(***************************************************************************)
NameOrder == <<"L1", "L2", "L3">>
AccountNames == {NameOrder[i] : i \in 1..Len(NameOrder)}
NameRank(name) == CHOOSE i \in 1..Len(NameOrder) : NameOrder[i] = name

PriorityHigh == 10
PriorityLow == 5
PriorityOf == [n \in AccountNames |-> IF n = "L1" THEN PriorityHigh ELSE PriorityLow]

\* What get_asset_system_users_with_actions may yield: each granted account
\* once, in any order, with its merged ActionSet.
Yields ==
    UNION {{q \in [1..n -> AccountNames \X ActionVals] :
               \A i, j \in 1..n : i # j => q[i][1] # q[j][1]} : n \in 0..Len(NameOrder)}

RECURSIVE InsertByPriority(_, _)
InsertByPriority(q, x) ==
    IF q = <<>> THEN <<x>>
    ELSE IF x.priority < Head(q).priority THEN <<x>> \o q
    ELSE <<Head(q)>> \o InsertByPriority(Tail(q), x)

RECURSIVE SortByPriorityFrom(_, _)
SortByPriorityFrom(q, sorted) ==
    IF q = <<>> THEN sorted
    ELSE SortByPriorityFrom(Tail(q), InsertByPriority(sorted, Head(q)))

SortMissing(system_users) == system_users

\* system_users.sort(key=lambda x: x.priority): a stable sort
SortByPriority(system_users) == SortByPriorityFrom(system_users, <<>>)

\* UserGrantedAssetSystemUsersApi.get_queryset
SystemUsersQueryset(asset_id, yield) ==
    LET req == [NoOut EXCEPT !.api = "system_users", !.input = yield]
        system_users ==
           [i \in 1..Len(yield) |->
              [name |-> yield[i][1], priority |-> PriorityOf[yield[i][1]],
               actions |-> yield[i][2]]]
    IN IF asset_id \notin Assets
       THEN out' = [req EXCEPT !.status = 404]
       ELSE out' = [req EXCEPT !.status = 200,
                               !.rows = SortByPriority(system_users)]

InitSystemUsers ==
    /\ rules = {}
    /\ cache = [u \in Users |-> NoEntry]
    /\ epoch = 0
    /\ changes = 0
    /\ procs = [p \in Procs |-> Idle]
    /\ resp = NoResp
    /\ binding = [a \in Assets |-> {<<1>>}]
    /\ valid = Assets
    /\ nodeRule = [k \in NodeKeys |-> "all"]
    /\ assetRule = {}
    /\ out = NoOut

ListSystemUsers ==
    /\ out = NoOut
    /\ \E asset_id \in Assets \cup {"a9"}, yield \in Yields :
          SystemUsersQueryset(asset_id, yield)
    /\ UNCHANGED <<binding, valid, nodeRule, assetRule>>
    /\ UNCHANGED apiVars

NextSystemUsers == ListSystemUsers \/ GrantedDeliver

SpecSystemUsers == InitSystemUsers /\ [][NextSystemUsers]_vars

Ascending ==
    \A i, j \in 1..Len(out.rows) :
       i < j => out.rows[i].priority <= out.rows[j].priority

YieldIndex(name) == CHOOSE i \in 1..Len(out.input) : out.input[i][1] = name

CarriesYield ==
    /\ Len(out.rows) = Len(out.input)
    /\ \A i \in 1..Len(out.input) :
          \E j \in 1..Len(out.rows) :
             /\ out.rows[j].name = out.input[i][1]
             /\ out.rows[j].actions = out.input[i][2]
             /\ out.rows[j].priority = PriorityOf[out.input[i][1]]

\* C8 as stated: the accounts come in ascending priority and accounts of
\* equal priority come in name order, whatever the order they were yielded in.
C8_Original ==
    (out.api = "system_users" /\ out.status = 200) =>
       /\ CarriesYield
       /\ \A i, j \in 1..Len(out.rows) :
             i < j =>
                \/ out.rows[i].priority < out.rows[j].priority
                \/ /\ out.rows[i].priority = out.rows[j].priority
                   /\ NameRank(out.rows[i].name) < NameRank(out.rows[j].name)

\* C8 amended: the accounts yielded come back each with its ActionSet in
\* .actions, in ascending priority, and accounts of equal priority keep the
\* order in which they were yielded.
C8_PriorityThenYieldOrder ==
    (out.api = "system_users" /\ out.status = 200) =>
       /\ CarriesYield
       /\ Ascending
       /\ \A i, j \in 1..Len(out.rows) :
             (i < j /\ out.rows[i].priority = out.rows[j].priority) =>
                YieldIndex(out.rows[i].name) < YieldIndex(out.rows[j].name)

\* L1 (priority 10) yielded first, then L3 and L2 (both priority 5): the
\* answer is L3, L2, L1.
C8_Witness ==
    /\ out.api = "system_users" /\ out.status = 200
    /\ Len(out.input) = 3 /\ out.input[1][1] = "L1" /\ out.input[2][1] = "L3"
    /\ Len(out.rows) = 3
    /\ out.rows[1].name = "L3" /\ out.rows[2].name = "L2"
    /\ out.rows[3].name = "L1"

====
